---- MODULE Spec2Model ----
(***************************************************************************)
(* Model of the in-memory shopping cart module src/src/cart.ts.            *)
(*                                                                         *)
(* Representation of JavaScript values.  A value is a record               *)
(*   [type, str, num]   with type the result of typeof,                    *)
(* str the characters of a string (and "" otherwise) and num the number    *)
(* in fixed point: the number x is held as the integer x * Unit, so that   *)
(* a number is an integer exactly when num is a multiple of Unit.          *)
(* The discount (0 or 0.1 in the source) is held in hundredths (0 or 10).  *)
(* A result of getProductCount is held in units of 1/Unit, a result of     *)
(* getTotal in units of 1/(Unit*Unit*100): both are exact, the rounding of *)
(* IEEE doubles is not modelled.                                           *)
(***************************************************************************)
EXTENDS Integers, Sequences, FiniteSets, TLC

\* ------------------------------------------------------------------ bounds
\* fixed-point scale of the numbers: x is held as x * Unit
Unit == 2
\* valid addProduct calls are explored while the cart holds at most MaxCount units
MaxCount == 4

\* ------------------------------------------------------- JavaScript values
Str(s) == [type |-> "string", str |-> s, num |-> 0]
\* the integer n
Num(n) == [type |-> "number", str |-> "", num |-> n * Unit]
\* the non-integer number n + 1/Unit
Frac(n) == [type |-> "number", str |-> "", num |-> n * Unit + 1]
Undefined == [type |-> "undefined", str |-> "", num |-> 0]

\* the + of two numbers (line 33 and the reducers only reach numbers)
JsAdd(a, b) == [type |-> "number", str |-> "", num |-> a.num + b.num]

\* discount = 0.1 of applyDiscount, in hundredths
PromoRate == 10

\* ------------------------------------------------------------ input values
\* values that pass the schema
GoodIds == {Str("1"), Str("2")}
GoodNames == {Str("T-shirt"), Str("Item")}
GoodPrices == {Num(0), Num(10), Num(15), Num(100)}
GoodQuantities == {Num(1), Num(2)}
\* values that do not: wrong type, negative, zero, non-integer
BadIds == {Num(1)}
BadNames == {Undefined}
BadPrices == {Num(-5), Str("10")}
BadQuantities == {Num(0), Num(-1), Frac(1), Str("1")}
GoodProducts == [id : GoodIds, name : GoodNames, price : GoodPrices, quantity : GoodQuantities]
\* the objects the bad ones are derived from, one per id
BaseProducts == [id : GoodIds, name : {Str("Bad")}, price : {Num(10)}, quantity : {Num(1)}]
\* a base object with one bad field, or with the two bad fields of the test's badProduct
BadProducts ==
  UNION { {[b EXCEPT !.id = v] : v \in BadIds}
          \cup {[b EXCEPT !.name = v] : v \in BadNames}
          \cup {[b EXCEPT !.price = v] : v \in BadPrices}
          \cup {[b EXCEPT !.quantity = v] : v \in BadQuantities}
          \cup {[b EXCEPT !.price = Num(-5), !.quantity = Num(0)]} : b \in BaseProducts }
\* the objects a caller may pass to addProduct (type Product is not enforced at run time)
Products == GoodProducts \cup BadProducts
ProductIds == {Str("1"), Str("2"), Str("not-found")}
Codes == {Str("PROMO10"), Str("INVALIDE"), Str("promo10")}
NoProduct == [id |-> Undefined, name |-> Undefined, price |-> Undefined, quantity |-> Undefined]

VARIABLES
  cart,          \* let cart: Product[]
  discount,      \* let discount, in hundredths
  lastOp,        \* the exported function called last ("init" before any call)
  lastProduct,   \* its argument, when it is addProduct
  lastArg,       \* its argument, when it is removeProduct or applyDiscount
  thrown,        \* "none", or the error the last call threw
  ret,           \* the value the last call returned (0 for void)
  prevCart,      \* cart before the last call
  prevDiscount,  \* discount before the last call
  onlyAdds,      \* no removeProduct call since the cart was last created empty
  provided,      \* sum of the quantities of the accepted addProduct calls since then
  removedBefore, \* after an addProduct: the id that the call just before it removed
                 \* from the cart, Undefined when that call removed nothing
  held,          \* the object of the last accepted addProduct, as the caller holds it
                 \* now (NoProduct once the caller has made another kind of call)
  alias          \* position of the cart entry that is that very object, 0 when none is

vars == <<cart, discount, lastOp, lastProduct, lastArg, thrown, ret,
          prevCart, prevDiscount, onlyAdds, provided, removedBefore, held, alias>>

\* ------------------------------------------------------------- ProductSchema
\* the schema with quantity nonnegative() in place of positive()
ProductSchema_ZeroQuantity(product) ==
  /\ product.id.type = "string"
  /\ product.name.type = "string"
  /\ product.price.type = "number" /\ product.price.num >= 0
  /\ product.quantity.type = "number"
  /\ product.quantity.num % Unit = 0
  /\ product.quantity.num >= 0

\* the schema without int()
ProductSchema_NoInt(product) ==
  /\ product.id.type = "string"
  /\ product.name.type = "string"
  /\ product.price.type = "number" /\ product.price.num >= 0
  /\ product.quantity.type = "number"
  /\ product.quantity.num > 0

\* the schema with price positive(), as the schema of the test file
ProductSchema_PositivePrice(product) ==
  /\ product.id.type = "string"
  /\ product.name.type = "string"
  /\ product.price.type = "number" /\ product.price.num > 0
  /\ product.quantity.type = "number"
  /\ product.quantity.num % Unit = 0
  /\ product.quantity.num > 0

\* z.object({id: z.string(), name: z.string(), price: z.number().nonnegative(),
\*           quantity: z.number().int().positive()}) accepts the object
ProductSchema(product) ==
  /\ product.id.type = "string"
  /\ product.name.type = "string"
  /\ product.price.type = "number" /\ product.price.num >= 0
  /\ product.quantity.type = "number"
  /\ product.quantity.num % Unit = 0
  /\ product.quantity.num > 0

\* ------------------------------------------------------------------ helpers
\* find comparing p.id with the whole product: never a match
find_Never(c, id) == 0

\* cart.find((p) => p.id === id): index of the first match, 0 for undefined
find(c, id) ==
  IF \E i \in 1..Len(c) : c[i].id = id
  THEN CHOOSE i \in 1..Len(c) : c[i].id = id /\ \A j \in 1..(i - 1) : c[j].id # id
  ELSE 0

\* filter with === in place of !==
RECURSIVE filter_Inverted(_, _)
filter_Inverted(c, productId) ==
  IF c = <<>> THEN <<>>
  ELSE IF Head(c).id = productId
       THEN <<Head(c)>> \o filter_Inverted(Tail(c), productId)
       ELSE filter_Inverted(Tail(c), productId)

\* removal that takes one unit off an entry of quantity above 1
RECURSIVE filter_Decrement(_, _)
filter_Decrement(c, productId) ==
  IF c = <<>> THEN <<>>
  ELSE IF Head(c).id # productId
       THEN <<Head(c)>> \o filter_Decrement(Tail(c), productId)
       ELSE IF Head(c).quantity.num > Unit
            THEN <<[Head(c) EXCEPT !.quantity.num = @ - Unit]>>
                    \o filter_Decrement(Tail(c), productId)
            ELSE filter_Decrement(Tail(c), productId)

\* removal that keeps the entry with quantity 0
RECURSIVE filter_SoftDelete(_, _)
filter_SoftDelete(c, productId) ==
  IF c = <<>> THEN <<>>
  ELSE IF Head(c).id # productId
       THEN <<Head(c)>> \o filter_SoftDelete(Tail(c), productId)
       ELSE <<[Head(c) EXCEPT !.quantity = Num(0)]>> \o filter_SoftDelete(Tail(c), productId)

\* cart.filter((p) => p.id !== productId)
RECURSIVE filter(_, _)
filter(c, productId) ==
  IF c = <<>> THEN <<>>
  ELSE IF Head(c).id # productId
       THEN <<Head(c)>> \o filter(Tail(c), productId)
       ELSE filter(Tail(c), productId)

\* the reducer counting entries: acc + 1
RECURSIVE reduceQuantity_CountEntries(_, _)
reduceQuantity_CountEntries(c, acc) ==
  IF c = <<>> THEN acc ELSE reduceQuantity_CountEntries(Tail(c), acc + Unit)

\* cart.reduce((acc, p) => acc + p.quantity, 0)
RECURSIVE reduceQuantity(_, _)
reduceQuantity(c, acc) ==
  IF c = <<>> THEN acc ELSE reduceQuantity(Tail(c), acc + Head(c).quantity.num)

\* cart.reduce((acc, p) => acc + p.price * p.quantity, 0)
RECURSIVE reducePrice(_, _)
reducePrice(c, acc) ==
  IF c = <<>> THEN acc
  ELSE reducePrice(Tail(c), acc + Head(c).price.num * Head(c).quantity.num)

\* value returned by getProductCount on the cart c
productCount(c) == reduceQuantity(c, 0)

\* getTotal returning the total before discount
totalOf_NoDiscount(c, d) == reducePrice(c, 0) * 100

\* value returned by getTotal on the cart c with discount d: total * (1 - discount)
totalOf(c, d) == reducePrice(c, 0) * (100 - d)

\* cart.push(product): the pushed entry is the caller's object
pushedAlias_SameObject(c) == Len(c) + 1

\* cart.push({ ...product }): the pushed entry is a new object, so no position
\* of the cart holds the caller's object
pushedAlias(c) == 0

\* a merge that keeps the incoming name and price
added_TakesIncoming(c, product) ==
  LET poductExisting == find(c, product.id) IN
  IF poductExisting # 0
  THEN [c EXCEPT ![poductExisting] =
          [product EXCEPT !.quantity = JsAdd(c[poductExisting].quantity, product.quantity)]]
  ELSE Append(c, product)

\* the cart after the body of addProduct, for a product that passed the schema
added(c, product) ==
  LET poductExisting == find(c, product.id) IN
  IF poductExisting # 0
  THEN [c EXCEPT ![poductExisting].quantity = JsAdd(@, product.quantity)]
  ELSE Append(c, product)

\* --------------------------------------------------------------------- Init
Init ==
  /\ cart = <<>>
  /\ discount = 0
  /\ lastOp = "init"
  /\ lastProduct = NoProduct
  /\ lastArg = Undefined
  /\ thrown = "none"
  /\ ret = 0
  /\ prevCart = <<>>
  /\ prevDiscount = 0
  /\ onlyAdds = TRUE
  /\ provided = 0
  /\ removedBefore = Undefined
  /\ held = NoProduct
  /\ alias = 0

\* what every call records
Called(name, product, arg) ==
  /\ lastOp' = name
  /\ lastProduct' = product
  /\ lastArg' = arg
  /\ prevCart' = cart
  /\ prevDiscount' = discount
  /\ removedBefore' =
        IF /\ name = "addProduct"
           /\ lastOp = "removeProduct"
           /\ \E i \in DOMAIN prevCart : prevCart[i].id = lastArg
        THEN lastArg
        ELSE Undefined
  /\ IF name \in {"addProduct", "callerMutates"}
     THEN TRUE
     ELSE held' = NoProduct /\ alias' = 0

\* ------------------------------------------------------------------ actions
\* addProduct called with an object the caller has just built
addProduct(product) ==
  /\ Called("addProduct", product, Undefined)
  /\ IF ~ProductSchema(product)
     THEN /\ thrown' = "ZodError"
          /\ held' = NoProduct
          /\ alias' = 0
          /\ UNCHANGED <<cart, provided>>
     ELSE /\ productCount(cart) + product.quantity.num <= MaxCount * Unit
          /\ thrown' = "none"
          /\ cart' = added(cart, product)
          /\ held' = product
          /\ alias' = IF find(cart, product.id) # 0 THEN 0 ELSE pushedAlias(cart)
          /\ provided' = IF onlyAdds THEN provided + product.quantity.num ELSE provided
  /\ ret' = 0
  /\ UNCHANGED <<discount, onlyAdds>>

\* addProduct called again with the object the caller still holds
\* (addProduct(product); addProduct(product) of the tests)
addProductAgain ==
  /\ held # NoProduct
  /\ Called("addProduct", held, Undefined)
  /\ IF ~ProductSchema(held)
     THEN /\ thrown' = "ZodError"
          /\ UNCHANGED <<cart, provided, held, alias>>
     ELSE /\ productCount(cart) + held.quantity.num <= MaxCount * Unit
          /\ thrown' = "none"
          /\ cart' = added(cart, held)
          /\ LET poductExisting == find(cart, held.id) IN
               IF poductExisting # 0
               THEN \* line 33 writes to the caller's object when the entry is that object
                    /\ held' = IF alias = poductExisting THEN cart'[poductExisting] ELSE held
                    /\ alias' = alias
               ELSE /\ held' = held
                    /\ alias' = IF alias # 0 THEN alias ELSE pushedAlias(cart)
          /\ provided' = IF onlyAdds THEN provided + held.quantity.num ELSE provided
  /\ ret' = 0
  /\ UNCHANGED <<discount, onlyAdds>>

\* the caller assigns value to a field of the object it holds: no function of
\* the module runs, the cart changes only if one of its entries is that object
callerMutates(field, value) ==
  /\ held # NoProduct
  /\ held[field] # value
  /\ Called("callerMutates", NoProduct, Undefined)
  /\ held' = [held EXCEPT ![field] = value]
  /\ cart' = IF alias # 0 THEN [cart EXCEPT ![alias] = held'] ELSE cart
  /\ thrown' = "none"
  /\ ret' = 0
  /\ UNCHANGED <<discount, onlyAdds, provided, alias>>

\* removeProduct that throws when no entry has the id
removeProduct_ThrowsOnMiss(productId) ==
  /\ Called("removeProduct", NoProduct, productId)
  /\ cart' = filter(cart, productId)
  /\ thrown' = IF find(cart, productId) = 0 THEN "Produit introuvable" ELSE "none"
  /\ ret' = 0
  /\ onlyAdds' = FALSE
  /\ provided' = 0
  /\ UNCHANGED discount

\* removeProduct that clears the discount when the cart becomes empty
removeProduct_ClearsDiscount(productId) ==
  /\ Called("removeProduct", NoProduct, productId)
  /\ cart' = filter(cart, productId)
  /\ thrown' = "none"
  /\ ret' = 0
  /\ onlyAdds' = FALSE
  /\ provided' = 0
  /\ discount' = IF filter(cart, productId) = <<>> THEN 0 ELSE discount

removeProduct(productId) ==
  /\ Called("removeProduct", NoProduct, productId)
  /\ cart' = filter(cart, productId)
  /\ thrown' = "none"
  /\ ret' = 0
  /\ onlyAdds' = FALSE
  /\ provided' = 0
  /\ UNCHANGED discount

getProductCount ==
  /\ Called("getProductCount", NoProduct, Undefined)
  /\ ret' = productCount(cart)
  /\ thrown' = "none"
  /\ UNCHANGED <<cart, discount, onlyAdds, provided>>

\* getTotal that uses the discount up
getTotal_ConsumesDiscount ==
  /\ Called("getTotal", NoProduct, Undefined)
  /\ ret' = totalOf(cart, discount)
  /\ thrown' = "none"
  /\ discount' = 0
  /\ UNCHANGED <<cart, onlyAdds, provided>>

getTotal ==
  /\ Called("getTotal", NoProduct, Undefined)
  /\ ret' = totalOf(cart, discount)
  /\ thrown' = "none"
  /\ UNCHANGED <<cart, discount, onlyAdds, provided>>

\* applyDiscount with discount = 0 in the else branch
applyDiscount_ResetOnInvalid(code) ==
  /\ Called("applyDiscount", NoProduct, code)
  /\ IF code = Str("PROMO10")
     THEN /\ discount' = PromoRate
          /\ thrown' = "none"
     ELSE /\ thrown' = "Code promo invalide"
          /\ discount' = 0
  /\ ret' = 0
  /\ UNCHANGED <<cart, onlyAdds, provided>>

\* applyDiscount with discount += 0.1
applyDiscount_Compound(code) ==
  /\ Called("applyDiscount", NoProduct, code)
  /\ IF code = Str("PROMO10")
     THEN /\ discount' = discount + PromoRate
          /\ thrown' = "none"
     ELSE /\ thrown' = "Code promo invalide"
          /\ UNCHANGED discount
  /\ ret' = 0
  /\ UNCHANGED <<cart, onlyAdds, provided>>

\* applyDiscount that empties the cart before it throws
applyDiscount_EmptiesCart(code) ==
  /\ Called("applyDiscount", NoProduct, code)
  /\ IF code = Str("PROMO10")
     THEN /\ discount' = PromoRate
          /\ thrown' = "none"
          /\ UNCHANGED cart
     ELSE /\ thrown' = "Code promo invalide"
          /\ cart' = <<>>
          /\ UNCHANGED discount
  /\ ret' = 0
  /\ UNCHANGED <<onlyAdds, provided>>

applyDiscount(code) ==
  /\ Called("applyDiscount", NoProduct, code)
  /\ IF code = Str("PROMO10")
     THEN /\ discount' = PromoRate
          /\ thrown' = "none"
     ELSE /\ thrown' = "Code promo invalide"
          /\ UNCHANGED discount
  /\ ret' = 0
  /\ UNCHANGED <<cart, onlyAdds, provided>>

\* resetCart without discount = 0
resetCart_KeepsDiscount ==
  /\ Called("resetCart", NoProduct, Undefined)
  /\ cart' = <<>>
  /\ UNCHANGED discount
  /\ thrown' = "none"
  /\ ret' = 0
  /\ onlyAdds' = TRUE
  /\ provided' = 0

resetCart ==
  /\ Called("resetCart", NoProduct, Undefined)
  /\ cart' = <<>>
  /\ discount' = 0
  /\ thrown' = "none"
  /\ ret' = 0
  /\ onlyAdds' = TRUE
  /\ provided' = 0

AddProductCall == \E product \in Products : addProduct(product)
RemoveProductCall == \E productId \in ProductIds : removeProduct(productId)
ApplyDiscountCall == \E code \in Codes : applyDiscount(code)

Next ==
  \/ AddProductCall
  \/ RemoveProductCall
  \/ getProductCount
  \/ getTotal
  \/ ApplyDiscountCall
  \/ resetCart

Spec == Init /\ [][Next]_vars

\* ------------------------------------------- the caller keeps its object
\* the objects passed to addProduct and the assignments the caller makes to
\* them afterwards
CallerProducts ==
  [id : GoodIds, name : {Str("T-shirt")}, price : {Num(10)}, quantity : GoodQuantities]
Assignments ==
  {<<"quantity", Num(3)>>, <<"quantity", Num(0)>>, <<"price", Num(100)>>,
   <<"name", Str("Item")>>, <<"id", Str("2")>>}

AddCallerProduct == \E product \in CallerProducts : addProduct(product)
CallerMutates == \E a \in Assignments : callerMutates(a[1], a[2])

NextByValue ==
  \/ AddCallerProduct
  \/ addProductAgain
  \/ CallerMutates
  \/ RemoveProductCall
  \/ getProductCount
  \/ getTotal
  \/ ApplyDiscountCall
  \/ resetCart

SpecByValue == Init /\ [][NextByValue]_vars


\* ------------------------------------------- vocabulary of the properties
\* the stated input constraints: id and name are strings, price is a number >= 0,
\* quantity is an integer >= 1
SatisfiesConstraints(p) ==
  /\ p.id.type = "string"
  /\ p.name.type = "string"
  /\ p.price.type = "number"
  /\ ~(p.price.num < 0)
  /\ p.quantity.type = "number"
  /\ \E k \in 1..p.quantity.num : p.quantity.num = k * Unit

\* sum of quantity over the positions S of the sequence c
RECURSIVE SumQuantityOver(_, _)
SumQuantityOver(S, c) ==
  IF S = {} THEN 0
  ELSE LET i == CHOOSE j \in S : TRUE IN c[i].quantity.num + SumQuantityOver(S \ {i}, c)

\* sum of price x quantity over the positions S of the sequence c
RECURSIVE SubtotalOver(_, _)
SubtotalOver(S, c) ==
  IF S = {} THEN 0
  ELSE LET i == CHOOSE j \in S : TRUE
       IN c[i].price.num * c[i].quantity.num + SubtotalOver(S \ {i}, c)

\* sum of quantity over the stored items
SumQuantity(c) == SumQuantityOver(DOMAIN c, c)
\* sum over the stored items of price x quantity
Subtotal(c) == SubtotalOver(DOMAIN c, c)
\* (subtotal) x (1 - discountRate), in units of 1/(Unit*Unit*100)
DiscountedTotal(c, d) == Subtotal(c) * (100 - d)
\* the whole number n as a result of getTotal
AsTotal(n) == n * Unit * Unit * 100
Holds(c, id) == \E i \in DOMAIN c : c[i].id = id
Line(id, name, price, quantity) ==
  [id |-> Str(id), name |-> Str(name), price |-> Num(price), quantity |-> Num(quantity)]

\* ------------------------------------------------------------------- C1
\* C1: addProduct called with an item that violates a constraint throws the
\* validation error and leaves items, discount and the product count as they were.
C1_RejectedAddLeavesCart ==
  (lastOp = "addProduct" /\ ~SatisfiesConstraints(lastProduct)) =>
     /\ thrown = "ZodError"
     /\ cart = prevCart
     /\ discount = prevDiscount
     /\ SumQuantity(cart) = SumQuantity(prevCart)

\* a rejected item whose id is already stored, with a discount in force
C1_Witness ==
  /\ lastOp = "addProduct"
  /\ ~SatisfiesConstraints(lastProduct)
  /\ thrown = "ZodError"
  /\ Holds(prevCart, lastProduct.id)
  /\ prevDiscount = PromoRate

\* ------------------------------------------------------------------- C2
\* C2: applyDiscount with any code other than "PROMO10" throws and leaves the
\* discount (0 or 0.10) and hence the total as they were.
C2_InvalidCodeLeavesDiscount ==
  (lastOp = "applyDiscount" /\ lastArg # Str("PROMO10")) =>
     /\ thrown = "Code promo invalide"
     /\ discount = prevDiscount
     /\ DiscountedTotal(cart, discount) = DiscountedTotal(prevCart, prevDiscount)

\* an invalid code after PROMO10, on a cart with a positive total
C2_Witness ==
  /\ lastOp = "applyDiscount"
  /\ lastArg = Str("INVALIDE")
  /\ thrown = "Code promo invalide"
  /\ prevDiscount = PromoRate
  /\ discount = PromoRate
  /\ Subtotal(cart) > 0

\* ------------------------------------------------------------------- C3
\* C3: the items sequence holds at most one line item per distinct id.
C3_UniqueIds ==
  \A i, j \in DOMAIN cart : cart[i].id = cart[j].id => i = j

\* an accepted add of an id already stored, in a cart of two entries
C3_Witness ==
  /\ lastOp = "addProduct"
  /\ thrown = "none"
  /\ Holds(prevCart, lastProduct.id)
  /\ Len(prevCart) = 2
  /\ Len(cart) = 2

\* ------------------------------------------------------------------- C4
\* C4: every stored line item has a quantity that is a positive integer.
C4_PositiveIntegerQuantity ==
  \A i \in DOMAIN cart :
     /\ cart[i].quantity.type = "number"
     /\ cart[i].quantity.num >= Unit
     /\ \E k \in 1..cart[i].quantity.num : cart[i].quantity.num = k * Unit

\* an entry that has been merged into
C4_Witness ==
  /\ lastOp = "addProduct"
  /\ thrown = "none"
  /\ \E i \in DOMAIN cart :
        /\ i \in DOMAIN prevCart
        /\ cart[i].id = lastProduct.id
        /\ cart[i].quantity.num > prevCart[i].quantity.num

\* ------------------------------------------------------------------- C5
\* C5: a valid item whose id is stored adds its quantity to that entry and
\* changes nothing else (name, price, number and order of entries); a valid
\* item whose id is not stored is appended as the last entry, as given.
C5_MergeOrAppend ==
  (lastOp = "addProduct" /\ SatisfiesConstraints(lastProduct)) =>
     /\ thrown = "none"
     /\ IF Holds(prevCart, lastProduct.id)
        THEN /\ Len(cart) = Len(prevCart)
             /\ \A i \in DOMAIN prevCart :
                  IF prevCart[i].id = lastProduct.id
                  THEN /\ cart[i].id = prevCart[i].id
                       /\ cart[i].name = prevCart[i].name
                       /\ cart[i].price = prevCart[i].price
                       /\ cart[i].quantity.type = "number"
                       /\ cart[i].quantity.num =
                             prevCart[i].quantity.num + lastProduct.quantity.num
                  ELSE cart[i] = prevCart[i]
        ELSE /\ Len(cart) = Len(prevCart) + 1
             /\ \A i \in DOMAIN prevCart : cart[i] = prevCart[i]
             /\ cart[Len(cart)] = lastProduct

\* a merge whose incoming name and price differ from the stored ones
C5_Witness ==
  /\ lastOp = "addProduct"
  /\ thrown = "none"
  /\ \E i \in DOMAIN prevCart :
        /\ prevCart[i].id = lastProduct.id
        /\ prevCart[i].name # lastProduct.name
        /\ prevCart[i].price # lastProduct.price
        /\ cart[i].price = prevCart[i].price

\* ------------------------------------------------------------------- C6
\* C6: getProductCount returns the sum of quantity over the stored items, 0 for
\* an empty cart, and, after accepted adds only from an empty cart, the sum of
\* all the quantities provided.
C6_CountIsSumOfQuantities ==
  lastOp = "getProductCount" =>
     /\ thrown = "none"
     /\ ret = SumQuantity(cart)
     /\ (cart = <<>> => ret = 0)
     /\ (onlyAdds => ret = provided)

\* the count 3 of a single entry: two adds of the same id, summed
C6_Witness ==
  /\ lastOp = "getProductCount"
  /\ onlyAdds
  /\ Len(cart) = 1
  /\ provided = Num(3).num
  /\ ret = Num(3).num

\* ------------------------------------------------------------------- C7
\* C7: getTotal returns (sum of price x quantity) x (1 - discount): 35 for
\* {10, 2} and {15, 1} without discount, 90 for {100, 1} after PROMO10, and 0
\* for an empty cart whatever the discount.
C7_TotalFormula ==
  lastOp = "getTotal" =>
     /\ thrown = "none"
     /\ ret = DiscountedTotal(cart, discount)
     /\ (discount = 0 => ret = 100 * Subtotal(cart))
     /\ (discount = PromoRate => ret = 90 * Subtotal(cart))
     /\ (cart = <<>> => ret = 0)
     /\ \A n1, n2 \in {"T-shirt", "Item"} :
          /\ (cart = <<Line("1", n1, 10, 2), Line("2", n2, 15, 1)>> /\ discount = 0)
                => ret = AsTotal(35)
          /\ (cart = <<Line("1", n1, 100, 1)>> /\ discount = PromoRate)
                => ret = AsTotal(90)

\* the total 90 of a single {100, 1} after PROMO10
C7_Witness ==
  /\ lastOp = "getTotal"
  /\ discount = PromoRate
  /\ cart = <<Line("1", "Item", 100, 1)>>
  /\ ret = AsTotal(90)

\* ------------------------------------------------------------------- C8
\* C8: the discount is 0 or 0.10; applyDiscount("PROMO10") sets it to 0.10 from
\* any prior value, and a repeated PROMO10 gives the same discount and the same
\* total as a single one.
C8_DiscountOverwrites ==
  /\ discount \in {0, PromoRate}
  /\ (lastOp = "applyDiscount" /\ lastArg = Str("PROMO10")) =>
        /\ thrown = "none"
        /\ discount = PromoRate
        /\ DiscountedTotal(cart, discount) = 90 * Subtotal(prevCart)
        /\ prevDiscount = PromoRate =>
              /\ discount = prevDiscount
              /\ DiscountedTotal(cart, discount) = DiscountedTotal(prevCart, prevDiscount)

\* PROMO10 applied again, on a cart with a positive total
C8_Witness ==
  /\ lastOp = "applyDiscount"
  /\ lastArg = Str("PROMO10")
  /\ prevDiscount = PromoRate
  /\ discount = PromoRate
  /\ Subtotal(cart) > 0

\* ------------------------------------------------------------------- C9
\* C9: removeProduct of an id that is not stored throws nothing and changes
\* nothing (items, discount, count, total); a second removeProduct of the same
\* id right after the first leaves the state of the first.
C9_RemoveMissingIsNoOp ==
  /\ [](  (lastOp = "removeProduct" /\ ~Holds(prevCart, lastArg)) =>
             /\ thrown = "none"
             /\ cart = prevCart
             /\ discount = prevDiscount
             /\ SumQuantity(cart) = SumQuantity(prevCart)
             /\ DiscountedTotal(cart, discount) = DiscountedTotal(prevCart, prevDiscount) )
  /\ [][ (lastOp = "removeProduct" /\ lastOp' = "removeProduct" /\ lastArg' = lastArg) =>
            (cart' = cart /\ discount' = discount /\ thrown' = "none") ]_vars

\* a miss on a cart of two entries with a discount in force
C9_Witness ==
  /\ lastOp = "removeProduct"
  /\ lastArg = Str("not-found")
  /\ Len(prevCart) = 2
  /\ Len(cart) = 2
  /\ discount = PromoRate

\* ------------------------------------------------------------------ C10
\* C10: removeProduct of a stored id removes exactly that line item, whatever
\* its quantity: no entry has the id afterwards, the other entries are kept as
\* they were and in their order, and the count drops by the removed quantity.
C10_RemoveStored ==
  (lastOp = "removeProduct" /\ Holds(prevCart, lastArg)) =>
     /\ thrown = "none"
     /\ ~Holds(cart, lastArg)
     /\ discount = prevDiscount
     /\ \E i \in DOMAIN prevCart :
          /\ prevCart[i].id = lastArg
          /\ cart = SubSeq(prevCart, 1, i - 1) \o SubSeq(prevCart, i + 1, Len(prevCart))
          /\ SumQuantity(cart) = SumQuantity(prevCart) - prevCart[i].quantity.num

\* the first of two entries removed, its quantity above 1
C10_Witness ==
  /\ lastOp = "removeProduct"
  /\ Len(prevCart) = 2
  /\ prevCart[1].id = lastArg
  /\ prevCart[1].quantity.num > Unit
  /\ cart = <<prevCart[2]>>

\* ------------------------------------------------------------------ C11
\* C11: resetCart never throws and leaves items empty and the discount 0, so
\* that the count and the total are 0 right after it, and an item added right
\* after it is totalled without the PROMO10 applied before the reset.
C11_ResetClearsCartAndDiscount ==
  /\ [](  lastOp = "resetCart" =>
             /\ thrown = "none"
             /\ cart = <<>>
             /\ discount = 0
             /\ productCount(cart) = 0
             /\ totalOf(cart, discount) = 0 )
  /\ [][ (lastOp = "resetCart" /\ lastOp' = "addProduct" /\ thrown' = "none") =>
            totalOf(cart', discount') = 100 * Subtotal(<<lastProduct'>>) ]_vars

\* a reset of a cart that held items under PROMO10
C11_Witness ==
  /\ lastOp = "resetCart"
  /\ prevDiscount = PromoRate
  /\ Subtotal(prevCart) > 0
  /\ cart = <<>>
  /\ discount = 0

\* ------------------------------------------------------------------ C12
\* C12: getProductCount and getTotal are pure reads: they leave items and the
\* discount unchanged, and a call repeated with no other call in between
\* returns the same value.
C12_QueriesArePure ==
  /\ [](  lastOp \in {"getProductCount", "getTotal"} =>
             /\ cart = prevCart
             /\ discount = prevDiscount )
  /\ [][ (lastOp \in {"getProductCount", "getTotal"} /\ lastOp' = lastOp) =>
            (ret' = ret /\ cart' = cart /\ discount' = discount) ]_vars

\* a total read on a cart with items and a discount
C12_Witness ==
  /\ lastOp = "getTotal"
  /\ discount = PromoRate
  /\ Subtotal(cart) > 0
  /\ ret = 90 * Subtotal(cart)
  /\ prevDiscount = PromoRate

\* ------------------------------------------------------------------ C13
\* C13: only addProduct with an item that violates a constraint and
\* applyDiscount with a code other than "PROMO10" throw; every other call
\* (removeProduct, getProductCount, getTotal, resetCart, addProduct with a
\* valid item, applyDiscount("PROMO10")) returns without an error.
C13_OnlyAddAndApplyThrow ==
  /\ thrown \in {"none", "ZodError", "Code promo invalide"}
  /\ thrown = "ZodError" => (lastOp = "addProduct" /\ ~SatisfiesConstraints(lastProduct))
  /\ thrown = "Code promo invalide" => (lastOp = "applyDiscount" /\ lastArg # Str("PROMO10"))
  /\ lastOp \in {"removeProduct", "getProductCount", "getTotal", "resetCart"} => thrown = "none"

\* removeProduct of an id that is not stored, on an empty cart, returns normally
C13_Witness ==
  /\ lastOp = "removeProduct"
  /\ lastArg = Str("not-found")
  /\ prevCart = <<>>
  /\ thrown = "none"

\* ------------------------------------------------------------------ C14
\* C14 as stated: addProduct accepts every item that satisfies the constraints,
\* an item of price 0 included: it does not throw, the count grows by the
\* item's quantity, and a price-0 item leaves the total unchanged.
C14_PriceZeroNeverChangesTotal ==
  (lastOp = "addProduct" /\ SatisfiesConstraints(lastProduct)) =>
     /\ thrown = "none"
     /\ Holds(cart, lastProduct.id)
     /\ productCount(cart) = SumQuantity(prevCart) + lastProduct.quantity.num
     /\ lastProduct.price.num = 0 =>
           totalOf(cart, discount) = DiscountedTotal(prevCart, prevDiscount)

\* C14 amended: addProduct accepts every item that satisfies the constraints,
\* an item of price 0 included: it does not throw and the count grows by the
\* item's quantity; a price-0 item whose id is not stored leaves the total
\* unchanged, and an item (of price 0 or not) whose id is stored adds the
\* stored price x its quantity x (1 - discount) to the total.
C14_ValidItemAccepted ==
  (lastOp = "addProduct" /\ SatisfiesConstraints(lastProduct)) =>
     /\ thrown = "none"
     /\ Holds(cart, lastProduct.id)
     /\ productCount(cart) = SumQuantity(prevCart) + lastProduct.quantity.num
     /\ (lastProduct.price.num = 0 /\ ~Holds(prevCart, lastProduct.id)) =>
           totalOf(cart, discount) = DiscountedTotal(prevCart, prevDiscount)
     /\ \A i \in DOMAIN prevCart :
           prevCart[i].id = lastProduct.id =>
              totalOf(cart, discount) =
                 DiscountedTotal(prevCart, prevDiscount)
                   + prevCart[i].price.num * lastProduct.quantity.num * (100 - discount)

\* a price-0 item appended to a cart with a positive total
C14_Witness ==
  /\ lastOp = "addProduct"
  /\ lastProduct.price = Num(0)
  /\ thrown = "none"
  /\ ~Holds(prevCart, lastProduct.id)
  /\ Subtotal(prevCart) > 0
  /\ Len(cart) = 2

\* ------------------------------------------------------------------ C16
\* C16: the discount is changed only by applyDiscount and resetCart: addProduct
\* (accepted or rejected) and removeProduct leave it unchanged, so PROMO10
\* applied to an empty cart applies to items added later, and removing every
\* item does not clear it.
C16_DiscountFrame ==
  /\ [](  lastOp \in {"addProduct", "removeProduct"} =>
             /\ discount = prevDiscount
             /\ (lastOp = "addProduct" /\ thrown = "none" /\ prevCart = <<>>
                   /\ prevDiscount = PromoRate)
                  => totalOf(cart, discount) = 90 * Subtotal(<<lastProduct>>) )
  /\ [][ discount' # discount => lastOp' \in {"applyDiscount", "resetCart"} ]_vars

\* the last item removed from a cart under PROMO10
C16_Witness ==
  /\ lastOp = "removeProduct"
  /\ prevCart # <<>>
  /\ cart = <<>>
  /\ prevDiscount = PromoRate
  /\ discount = PromoRate

\* ------------------------------------------------------------------ C17
\* C17: applyDiscount, whether it succeeds or throws, leaves the sequence of
\* line items and the product count as they were.
C17_ApplyDiscountLeavesItems ==
  lastOp = "applyDiscount" =>
     /\ cart = prevCart
     /\ productCount(cart) = SumQuantity(prevCart)

\* PROMO10 applied to a cart of two entries
C17_Witness ==
  /\ lastOp = "applyDiscount"
  /\ thrown = "none"
  /\ prevDiscount = 0
  /\ discount = PromoRate
  /\ Len(prevCart) = 2
  /\ Len(cart) = 2

\* ------------------------------------------------------------------ C15
\* C15: an added item is stored by value: a later assignment by the caller to
\* a field of its own object changes neither the stored entries nor the count
\* nor the total, and a later merge into the stored entry (the same object
\* added again) does not change the caller's object.
C15_StoredByValue ==
  /\ lastOp = "callerMutates" =>
        /\ cart = prevCart
        /\ productCount(cart) = SumQuantity(prevCart)
        /\ totalOf(cart, discount) = DiscountedTotal(prevCart, prevDiscount)
  /\ (lastOp = "addProduct" /\ thrown = "none") => held = lastProduct

\* the caller has changed the quantity of an object whose entry is stored
C15_Witness ==
  /\ lastOp = "callerMutates"
  /\ held.quantity = Num(3)
  /\ \E i \in DOMAIN cart :
        /\ cart[i].id = held.id
        /\ cart[i].quantity # held.quantity

\* ------------------------------------------------------------------ C18
\* C18: the cart keeps no memory of a removed item: a valid item added right
\* after the removeProduct of its id is appended as a new last entry with the
\* incoming name, price and quantity, and the total grows by the incoming
\* price x quantity x (1 - discount).
C18_NoMemoryOfRemoved ==
  (lastOp = "addProduct" /\ SatisfiesConstraints(lastProduct)
     /\ removedBefore = lastProduct.id) =>
     /\ thrown = "none"
     /\ cart = Append(prevCart, lastProduct)
     /\ SumQuantity(cart) = SumQuantity(prevCart) + lastProduct.quantity.num
     /\ totalOf(cart, discount) =
           DiscountedTotal(prevCart, prevDiscount)
             + lastProduct.price.num * lastProduct.quantity.num * (100 - discount)

\* an id removed and added again, behind an entry that stayed
C18_Witness ==
  /\ lastOp = "addProduct"
  /\ thrown = "none"
  /\ removedBefore = lastProduct.id
  /\ Len(prevCart) = 1
  /\ Len(cart) = 2
  /\ cart[2] = lastProduct

====
